---------------------------- MODULE Spec2Model ----------------------------
(***************************************************************************)
(* Europeana search client: the query builder, the request built by        *)
(* search_raw, and the cursor pagination of search_all_raw / search_all    *)
(* (src/europeana/client.py, src/europeana_models.py).                      *)
(*                                                                         *)
(* Python values are modelled as follows.  Text is a sequence of one-      *)
(* character strings, so that quoting and joining are computed.  None is   *)
(* the empty tuple and a present optional value v is <<v>>.  A dict is a   *)
(* sequence of [k, v] entries in insertion order.                          *)
(***************************************************************************)
EXTENDS Integers, Sequences, FiniteSets, TLC

VARIABLES
    query,            \* the caller's QueryBuilder object
    pc,               \* position of the generator: idle (not called), created,
                      \* looptop, fetching, suspended (at the yield), afterloop,
                      \* done (ended normally), error (ended by an exception)
    typed,            \* TRUE: search_all (typed items), FALSE: search_all_raw
    max_records,      \* argument of the call: None or <<n>>
    cursor,           \* local of the generator
    records_fetched,  \* local of the generator
    page_query,       \* local of the generator: the deep copy used for the current page
    results,          \* local of the generator: the page being drained
    pos,              \* position of the for loop in results.items (0: none yielded yet)
    inflight,         \* requests sent and not yet answered
    requests,         \* history: the params of every request sent, in order
    responses,        \* history: the answer to every request, in order
    yielded,          \* history: the records handed to the caller, in order
    stopped,          \* the caller has ceased to pull
    twin,             \* a second generator object over the same builder (its pc,
                      \* arguments, locals and histories as one record)
    last_call         \* the most recent call on the builder or the client made
                      \* outside the iteration: its name, arguments and outcome

vars == <<query, pc, typed, max_records, cursor, records_fetched, page_query,
          results, pos, inflight, requests, responses, yielded, stopped>>

\* the state outside the first generator and its builder
aux == <<twin, last_call>>

-----------------------------------------------------------------------------
(* Bounds of the model *)

\* the iteration is followed for at most this many page fetches
MaxFetches == 3

(* Module-level constants of the client *)
DEFAULT_ROWS == 100
MAX_ROWS == 100

-----------------------------------------------------------------------------
(* Python values *)

None == <<>>
Some(v) == <<v>>
IsNone(o) == o = <<>>
Val(o) == o[1]

Min(a, b) == IF a <= b THEN a ELSE b

\* truth value of an Optional[int]: None and 0 are false
TruthyInt(o) == ~IsNone(o) /\ Val(o) # 0
\* truth value of an Optional[str]: None and "" are false
TruthyStr(o) == ~IsNone(o) /\ Val(o) # ""
\* truth value of a text (sequence of characters) or None
TruthyText(o) == ~IsNone(o) /\ Len(Val(o)) > 0

Digit(d) == CASE d = 0 -> "0" [] d = 1 -> "1" [] d = 2 -> "2" [] d = 3 -> "3"
              [] d = 4 -> "4" [] d = 5 -> "5" [] d = 6 -> "6" [] d = 7 -> "7"
              [] d = 8 -> "8" [] d = 9 -> "9"

RECURSIVE NatToText(_)
NatToText(n) == IF n < 10 THEN <<Digit(n)>>
                ELSE NatToText(n \div 10) \o <<Digit(n % 10)>>

\* str(n) for an int
IntToText(n) == IF n < 0 THEN <<"-">> \o NatToText(0 - n) ELSE NatToText(n)

\* a str value, an enum member, a bool and an int as filter values
PyStr(s) == [t |-> "str", s |-> s]
PyEnum(s) == [t |-> "enum", s |-> s]
PyBool(b) == [t |-> "bool", b |-> b]
PyInt(n) == [t |-> "int", n |-> n]

\* str(value) after build_query_string's enum unwrapping
str(value) ==
    CASE value.t = "str" -> value.s
      [] value.t = "enum" -> value.s
      [] value.t = "bool" -> IF value.b THEN <<"T", "r", "u", "e">>
                             ELSE <<"F", "a", "l", "s", "e">>
      [] value.t = "int" -> IntToText(value.n)

(* dict operations, insertion-ordered *)
HasKey(d, k) == \E i \in 1..Len(d) : d[i].k = k
DictSet(d, k, v) ==
    IF HasKey(d, k)
    THEN [i \in 1..Len(d) |-> IF d[i].k = k THEN [k |-> k, v |-> v] ELSE d[i]]
    ELSE Append(d, [k |-> k, v |-> v])
DictGet(d, k, default) ==
    IF HasKey(d, k) THEN (CHOOSE e \in {d[i] : i \in 1..Len(d)} : e.k = k).v
    ELSE default

-----------------------------------------------------------------------------
(* build_query_string *)

AND == <<" ", "A", "N", "D", " ">>

Contains(s, c) == \E i \in 1..Len(s) : s[i] = c
StartsWith(s, c) == Len(s) >= 1 /\ s[1] = c
EndsWith(s, c) == Len(s) >= 1 /\ s[Len(s)] = c

\* a variant that wraps every value containing a space
QuoteValue_Always(v) ==
    IF Contains(v, " ") THEN <<"\"">> \o v \o <<"\"">> ELSE v

\* the quoting step of build_query_string
QuoteValue(v) ==
    IF Contains(v, " ") /\ ~(StartsWith(v, "\"") /\ EndsWith(v, "\""))
    THEN <<"\"">> \o v \o <<"\"">>
    ELSE v

FilterTerm(e) == e.k \o <<":">> \o QuoteValue(str(e.v))

\* a variant that writes the separator before every part
RECURSIVE Join_Lead(_, _)
Join_Lead(sep, parts) ==
    IF Len(parts) = 0 THEN <<>>
    ELSE sep \o parts[1] \o Join_Lead(sep, Tail(parts))

RECURSIVE Join(_, _)
Join(sep, parts) ==
    IF Len(parts) = 0 THEN <<>>
    ELSE IF Len(parts) = 1 THEN parts[1]
    ELSE parts[1] \o sep \o Join(sep, Tail(parts))

\* a variant that puts the free text after the filter terms
build_query_string_TextLast(text, filters) ==
    LET textPart == IF TruthyText(text) THEN <<Val(text)>> ELSE <<>>
        filterPart == [i \in 1..Len(filters) |-> FilterTerm(filters[i])]
        query_parts == filterPart \o textPart
    IN IF Len(query_parts) > 0 THEN Join(AND, query_parts) ELSE <<>>

build_query_string(text, filters) ==
    LET textPart == IF TruthyText(text) THEN <<Val(text)>> ELSE <<>>
        filterPart == [i \in 1..Len(filters) |-> FilterTerm(filters[i])]
        query_parts == textPart \o filterPart
    IN IF Len(query_parts) > 0 THEN Join(AND, query_parts) ELSE <<>>

-----------------------------------------------------------------------------
(* QueryBuilder *)

ProfileRICH == [t |-> "Profile", v |-> "rich"]

QueryBuilder ==
    [_filters |-> <<>>, _text_query |-> None, _geographic |-> None,
     _facets |-> <<>>, _profile |-> ProfileRICH, _rows |-> DEFAULT_ROWS,
     _reusability |-> None, _media_flag |-> None, _thumbnail_flag |-> None]

\* QueryBuilder.field(field_name, value)
field(q, field_name, value) ==
    [q EXCEPT !._filters = DictSet(q._filters, field_name, value)]

\* a variant that substitutes the match-all wildcard itself
get_query_string_Wildcard(q) ==
    IF Len(build_query_string(q._text_query, q._filters)) > 0
    THEN build_query_string(q._text_query, q._filters)
    ELSE <<"*", ":", "*">>

get_query_string(q) == build_query_string(q._text_query, q._filters)

\* copy.deepcopy(query): an independent object with equal slots
deepcopy(q) == q

-----------------------------------------------------------------------------
(* EuropeanaClient.search_raw: the request *)

api_key == "KEY"
MATCH_ALL == <<"*", ":", "*">>

\* str(flag).lower() for a bool
BoolLower(b) == IF b THEN "true" ELSE "false"

\* f"distance(coverageLocation,{lat},{lon},{radius})" for whole-number arguments
DistanceFilter(g) ==
    <<"d", "i", "s", "t", "a", "n", "c", "e", "(", "c", "o", "v", "e", "r", "a", "g", "e", "L", "o", "c", "a", "t", "i", "o", "n", ",">>
        \o IntToText(g[1]) \o <<",">> \o IntToText(g[2]) \o <<",">>
        \o IntToText(g[3]) \o <<")">>

\* the params dict of the GET request sent for builder q and the given cursor
search_raw_params(q, cur) ==
    LET query_str == get_query_string(q)
        facets == IF Len(q._facets) > 0 THEN Some(q._facets) ELSE None
        \* a Profile member is replaced by its value, a str is sent as it is
        profile == q._profile.v
        base == [query |-> IF Len(query_str) > 0 THEN query_str ELSE MATCH_ALL,
                 rows |-> IntToText(Min(q._rows, MAX_ROWS)),
                 cursor |-> cur,
                 wskey |-> api_key,
                 profile |-> profile]
        facet == IF ~IsNone(facets) THEN [facet |-> Join(<<",">>, Val(facets))] ELSE <<>>
        qf == IF ~IsNone(q._geographic)
              THEN [qf |-> DistanceFilter(Val(q._geographic))] ELSE <<>>
        reus == IF ~IsNone(q._reusability) /\ Val(q._reusability).v # ""
                THEN [reusability |-> Val(q._reusability).v] ELSE <<>>
        media == IF ~IsNone(q._media_flag)
                 THEN [media |-> BoolLower(Val(q._media_flag))] ELSE <<>>
        thumb == IF ~IsNone(q._thumbnail_flag)
                 THEN [thumbnail |-> BoolLower(Val(q._thumbnail_flag))] ELSE <<>>
    IN base @@ facet @@ qf @@ reus @@ media @@ thumb

(* EuropeanaClient.search_raw: the result *)

\* data.get(key, default) on the decoded JSON body
Get(data, key, default) == IF key \in DOMAIN data THEN data[key] ELSE default

\* a variant that copies the facet summary of the body whatever was requested
SearchResults_BodyFacets(data, q) ==
    [items |-> Get(data, "items", <<>>),
     total_results |-> Get(data, "totalResults", 0),
     next_cursor |-> IF "nextCursor" \in DOMAIN data THEN Some(data["nextCursor"]) ELSE None,
     facets |-> Some(Get(data, "facets", <<>>)),
     query |-> get_query_string(q)]

\* the SearchResults built from the body of a successful response
SearchResults(data, q) ==
    [items |-> Get(data, "items", <<>>),
     total_results |-> Get(data, "totalResults", 0),
     next_cursor |-> IF "nextCursor" \in DOMAIN data THEN Some(data["nextCursor"]) ELSE None,
     facets |-> IF Len(q._facets) > 0 THEN Some(Get(data, "facets", <<>>)) ELSE None,
     query |-> get_query_string(q)]

\* EuropeanaItem.from_dict: every field is data.get(...)
EuropeanaItem_from_dict(data) ==
    [cls |-> "EuropeanaItem", id |-> Get(data, "id", None)]

\* a variant that loses the continuation cursor
from_search_results_NoCursor(sr) ==
    [items |-> [i \in 1..Len(sr.items) |-> EuropeanaItem_from_dict(sr.items[i])],
     total_results |-> sr.total_results,
     next_cursor |-> None,
     facets |-> IF ~IsNone(sr.facets) /\ Len(Val(sr.facets)) > 0 THEN sr.facets ELSE None,
     query |-> sr.query]

\* StructuredSearchResults.from_search_results (parse_items = True)
from_search_results(sr) ==
    [items |-> [i \in 1..Len(sr.items) |-> EuropeanaItem_from_dict(sr.items[i])],
     total_results |-> sr.total_results,
     next_cursor |-> sr.next_cursor,
     facets |-> IF ~IsNone(sr.facets) /\ Len(Val(sr.facets)) > 0 THEN sr.facets ELSE None,
     query |-> sr.query]

\* EuropeanaClient.search(query, cursor) on a successful response
search(data, q) == from_search_results(SearchResults(data, q))

-----------------------------------------------------------------------------
(* The pagination loop of search_all_raw / search_all *)

START_CURSOR == "*"

\* if max_records: remaining = max_records - records_fetched; if remaining <= 0: break
BudgetSpent(m, rf) == TruthyInt(m) /\ Val(m) - rf <= 0

\* rows for this request
PageRows(m, rf) ==
    IF TruthyInt(m) THEN Min(DEFAULT_ROWS, Val(m) - rf) ELSE DEFAULT_ROWS

\* a variant that copies the builder once and reuses that copy for later pages
PreparePage_Stale(q, rows) ==
    [caller |-> q,
     page |-> [(IF Len(requests) = 0 THEN deepcopy(q) ELSE page_query) EXCEPT !._rows = rows]]

\* a variant without the copy: the page's row count is written to the caller's
\* builder
PreparePage_Alias(q, rows) ==
    [caller |-> [q EXCEPT !._rows = rows], page |-> [q EXCEPT !._rows = rows]]

\* a variant that leaves the builder's row count in the copy
PreparePage_KeepRows(q, rows) ==
    [caller |-> q, page |-> deepcopy(q)]

\* page_query = copy.deepcopy(query); page_query._rows = rows
\* (caller: the caller's builder afterwards, page: the copy)
PreparePage(q, rows) ==
    [caller |-> q, page |-> [deepcopy(q) EXCEPT !._rows = rows]]

\* a variant with > in place of >=
BudgetReached_Late(m, rf) == TruthyInt(m) /\ rf > Val(m)

\* if max_records and records_fetched >= max_records: return
BudgetReached(m, rf) == TruthyInt(m) /\ rf >= Val(m)

\* a variant whose loop ends one item early
HasNext_Short(res, p) == p + 1 < Len(res.items)

\* the for loop over results.items has a next item after position p
HasNext(res, p) == p < Len(res.items)

\* a variant that yields the first item again
Item_Repeat(res, p) == res.items[1]

\* the item the for loop yields at position p
Item(res, p) == res.items[p]

\* a variant with "and" in place of "or"
NoMorePages_And(res) == ~TruthyStr(res.next_cursor) /\ Len(res.items) = 0

\* a variant that tests the cursor only
NoMorePages_CursorOnly(res) == ~TruthyStr(res.next_cursor)

\* a variant that also stops when the page returns the cursor it was asked with
NoMorePages_SameCursor(res) ==
    ~TruthyStr(res.next_cursor) \/ Len(res.items) = 0 \/ res.next_cursor = cursor

\* a variant that always goes on to the next page
NoMorePages_Never(res) == FALSE

\* if not results.next_cursor or len(results.items) == 0: break
NoMorePages(res) == ~TruthyStr(res.next_cursor) \/ Len(res.items) = 0

\* a variant that never advances the cursor
NextCursor_Keep(cur, res) == cur

\* cursor = results.next_cursor
NextCursor(cur, res) == res.next_cursor

\* the results object of the page, for either entry point
PageResults(isTyped, data, q) ==
    IF isTyped THEN search(data, q) ELSE SearchResults(data, q)

\* a variant that swallows the failure
RaisesForStatus_Never(resp) == FALSE

\* response.raise_for_status() raises on a non-success response
RaisesForStatus(resp) == ~resp.ok

-----------------------------------------------------------------------------
(* The remote API: what a page fetch may answer *)

\* the sizes of the pages the remote may return: empty, one record, a full page
PageSizes == {0, 1, DEFAULT_ROWS}
CursorTokens == {"", "c1", "c2"}

\* the raw records of the k-th page when it carries n of them
RawItems(k, n) == [i \in 1..n |-> [id |-> <<k, i>>]]

\* the decoded bodies of a successful answer to the k-th request
Bodies(k) ==
    {[items |-> RawItems(k, n), nextCursor |-> c] : n \in PageSizes, c \in CursorTokens}
    \cup {[items |-> RawItems(k, n)] : n \in PageSizes}
    \cup {[nextCursor |-> c] : c \in CursorTokens}

Answers(k) ==
    {[ok |-> TRUE, data |-> d] : d \in Bodies(k)} \cup {[ok |-> FALSE, data |-> <<>>]}

\* answers with short pages only, for the runs in which the caller also mutates
\* the builder
ShortAnswers(k) ==
    {[ok |-> TRUE, data |-> [items |-> RawItems(k, n), nextCursor |-> c]] :
        n \in {0, 2}, c \in {"c1", "c2"}}
    \cup {[ok |-> TRUE, data |-> [items |-> RawItems(k, 1)]], [ok |-> FALSE, data |-> <<>>]}

\* the filter assignments the caller makes between pulls
FilterNames == {<<"w", "h", "o">>}
FilterValues == {PyStr(<<"a">>), PyStr(<<"a", " ", "b">>)}

\* the values of max_records a caller passes
Budgets ==
    {None} \cup {Some(n) : n \in {-1, 0, 1, 2, DEFAULT_ROWS + 1, 2 * DEFAULT_ROWS + 50}}

EmptyResults ==
    [items |-> <<>>, total_results |-> 0, next_cursor |-> None, facets |-> None,
     query |-> <<>>]

\* no second generator has been created
NoGenerator ==
    [pc |-> "idle", typed |-> FALSE, max_records |-> None,
     cursor |-> Some(START_CURSOR), records_fetched |-> 0,
     page_query |-> QueryBuilder, results |-> EmptyResults, pos |-> 0,
     requests |-> <<>>, responses |-> <<>>, yielded |-> <<>>]

\* no call has been made yet
NoCall == [op |-> "none"]

-----------------------------------------------------------------------------
(* State machine *)

Init ==
    /\ query = QueryBuilder
    /\ pc = "idle"
    /\ typed = FALSE
    /\ max_records = None
    /\ cursor = Some(START_CURSOR)
    /\ records_fetched = 0
    /\ page_query = QueryBuilder
    /\ results = EmptyResults
    /\ pos = 0
    /\ inflight = 0
    /\ requests = <<>>
    /\ responses = <<>>
    /\ yielded = <<>>
    /\ stopped = FALSE
    /\ twin = NoGenerator
    /\ last_call = NoCall

\* client.search_all_raw(query, m) / client.search_all(query, m): the generator is
\* created; its body runs on the first pull
SearchAll(isTyped, m) ==
    /\ pc = "idle"
    /\ pc' = "created"
    /\ typed' = isTyped
    /\ max_records' = m
    /\ UNCHANGED <<query, cursor, records_fetched, page_query, results, pos,
                   inflight, requests, responses, yielded, stopped>>

\* the caller pulls the next record (next() on the generator)
Pull ==
    /\ ~stopped
    /\ \/ /\ pc = "created"
          \* cursor = "*"; records_fetched = 0; while True:
          /\ cursor' = Some(START_CURSOR)
          /\ records_fetched' = 0
          /\ pc' = "looptop"
          /\ UNCHANGED <<pos, yielded>>
       \/ /\ pc = "suspended"
          \* resumed after the yield: records_fetched += 1
          /\ records_fetched' = records_fetched + 1
          /\ IF BudgetReached(max_records, records_fetched + 1)
             THEN pc' = "done" /\ UNCHANGED <<pos, yielded>>
             ELSE IF HasNext(results, pos)
             THEN /\ pos' = pos + 1
                  /\ yielded' = Append(yielded, Item(results, pos + 1))
                  /\ pc' = "suspended"
             ELSE pc' = "afterloop" /\ UNCHANGED <<pos, yielded>>
          /\ UNCHANGED cursor
    /\ UNCHANGED <<query, typed, max_records, page_query, results, inflight,
                   requests, responses, stopped>>

\* top of the while loop: compute rows, copy the builder, send the request
LoopTop ==
    /\ pc = "looptop"
    /\ IF BudgetSpent(max_records, records_fetched)
       THEN /\ pc' = "done"
            /\ UNCHANGED <<query, page_query, inflight, requests>>
       ELSE LET rows == PageRows(max_records, records_fetched)
                prep == PreparePage(query, rows)
            IN /\ Len(requests) < MaxFetches
               /\ query' = prep.caller
               /\ page_query' = prep.page
               /\ requests' = Append(requests, search_raw_params(prep.page, cursor))
               /\ inflight' = inflight + 1
               /\ pc' = "fetching"
    /\ UNCHANGED <<typed, max_records, cursor, records_fetched, results, pos,
                   responses, yielded, stopped>>

\* the answer to the outstanding request arrives
Respond(resp) ==
    /\ pc = "fetching"
    /\ inflight' = inflight - 1
    /\ responses' = Append(responses, resp)
    /\ IF RaisesForStatus(resp)
       THEN pc' = "error" /\ UNCHANGED <<results, pos, yielded>>
       ELSE LET res == PageResults(typed, resp.data, page_query)
            IN /\ results' = res
               /\ IF HasNext(res, 0)
                  THEN /\ pos' = 1
                       /\ yielded' = Append(yielded, Item(res, 1))
                       /\ pc' = "suspended"
                  ELSE /\ pos' = 0
                       /\ pc' = "afterloop"
                       /\ UNCHANGED yielded
    /\ UNCHANGED <<query, typed, max_records, cursor, records_fetched, page_query,
                   requests, stopped>>

\* after the for loop: stop, or advance the cursor and loop
AfterLoop ==
    /\ pc = "afterloop"
    /\ IF NoMorePages(results)
       THEN pc' = "done" /\ UNCHANGED cursor
       ELSE pc' = "looptop" /\ cursor' = NextCursor(cursor, results)
    /\ UNCHANGED <<query, typed, max_records, records_fetched, page_query, results,
                   pos, inflight, requests, responses, yielded, stopped>>

\* the caller ceases to pull from the generator
Stop ==
    /\ pc \in {"created", "suspended"}
    /\ ~stopped
    /\ stopped' = TRUE
    /\ UNCHANGED <<query, pc, typed, max_records, cursor, records_fetched,
                   page_query, results, pos, inflight, requests, responses, yielded>>

\* the caller assigns a filter on its builder: query.field(name, value).  The
\* caller runs only while the generator is not executing.
SetField(name, value) ==
    /\ pc \in {"idle", "created", "suspended", "done", "error"}
    /\ query' = field(query, name, value)
    /\ UNCHANGED <<pc, typed, max_records, cursor, records_fetched, page_query,
                   results, pos, inflight, requests, responses, yielded, stopped>>

Next ==
    \/ \E t \in BOOLEAN, m \in Budgets : SearchAll(t, m) /\ UNCHANGED aux
    \/ Pull /\ UNCHANGED aux
    \/ LoopTop /\ UNCHANGED aux
    \/ \E resp \in Answers(Len(requests)) : Respond(resp) /\ UNCHANGED aux
    \/ AfterLoop /\ UNCHANGED aux
    \/ Stop /\ UNCHANGED aux

Spec == Init /\ [][Next]_vars

\* the same iteration with a caller that mutates the builder between pulls
NextMut ==
    \/ \E t \in BOOLEAN, m \in {None, Some(3)} : SearchAll(t, m) /\ UNCHANGED aux
    \/ Pull /\ UNCHANGED aux
    \/ LoopTop /\ UNCHANGED aux
    \/ \E resp \in ShortAnswers(Len(requests)) : Respond(resp) /\ UNCHANGED aux
    \/ AfterLoop /\ UNCHANGED aux
    \/ Stop /\ UNCHANGED aux
    \/ \E name \in FilterNames, value \in FilterValues :
          SetField(name, value) /\ UNCHANGED aux

SpecMut == Init /\ [][NextMut]_vars

-----------------------------------------------------------------------------
(* A second generator object.  Each call of search_all_raw / search_all makes *)
(* a generator with its own arguments and locals; the record g holds them.   *)

\* the variables of the first generator (vars without the builder)
locals == <<pc, typed, max_records, cursor, records_fetched, page_query, results,
            pos, inflight, requests, responses, yielded, stopped>>

\* the generator object returned by search_all_raw (isTyped = FALSE) or
\* search_all (isTyped = TRUE)
GenCreate(isTyped, m) ==
    [NoGenerator EXCEPT !.pc = "created", !.typed = isTyped, !.max_records = m]

\* next() on the generator
GenPull(g) ==
    IF g.pc = "created"
    THEN [g EXCEPT !.cursor = Some(START_CURSOR), !.records_fetched = 0,
                   !.pc = "looptop"]
    ELSE LET rf == g.records_fetched + 1
         IN IF BudgetReached(g.max_records, rf)
            THEN [g EXCEPT !.records_fetched = rf, !.pc = "done"]
            ELSE IF HasNext(g.results, g.pos)
            THEN [g EXCEPT !.records_fetched = rf, !.pos = g.pos + 1,
                           !.yielded = Append(g.yielded, Item(g.results, g.pos + 1))]
            ELSE [g EXCEPT !.records_fetched = rf, !.pc = "afterloop"]

\* top of the while loop (gen: the generator afterwards, caller: the builder
\* it was given, afterwards)
GenLoopTop(g, q) ==
    IF BudgetSpent(g.max_records, g.records_fetched)
    THEN [gen |-> [g EXCEPT !.pc = "done"], caller |-> q]
    ELSE LET prep == PreparePage(q, PageRows(g.max_records, g.records_fetched))
         IN [gen |-> [g EXCEPT !.page_query = prep.page,
                               !.requests = Append(g.requests,
                                               search_raw_params(prep.page, g.cursor)),
                               !.pc = "fetching"],
             caller |-> prep.caller]

\* the answer to the generator's outstanding request arrives
GenRespond(g, resp) ==
    IF RaisesForStatus(resp)
    THEN [g EXCEPT !.responses = Append(g.responses, resp), !.pc = "error"]
    ELSE LET res == PageResults(g.typed, resp.data, g.page_query)
         IN IF HasNext(res, 0)
            THEN [g EXCEPT !.responses = Append(g.responses, resp), !.results = res,
                           !.pos = 1, !.yielded = Append(g.yielded, Item(res, 1)),
                           !.pc = "suspended"]
            ELSE [g EXCEPT !.responses = Append(g.responses, resp), !.results = res,
                           !.pos = 0, !.pc = "afterloop"]

\* after the for loop
GenAfterLoop(g) ==
    IF NoMorePages(g.results)
    THEN [g EXCEPT !.pc = "done"]
    ELSE [g EXCEPT !.pc = "looptop", !.cursor = NextCursor(g.cursor, g.results)]

\* search_all_raw and search_all called with the same builder and the same
\* max_records, pulled together and given the same answers: the first generator
\* is search_all_raw, the second is search_all
PairSearchAll(m) ==
    /\ SearchAll(FALSE, m)
    /\ twin' = GenCreate(TRUE, m)
    /\ UNCHANGED last_call

PairPull ==
    /\ Pull
    /\ twin' = IF twin.pc \in {"created", "suspended"} THEN GenPull(twin) ELSE twin
    /\ UNCHANGED last_call

PairLoopTop ==
    /\ LoopTop
    /\ twin' = IF twin.pc = "looptop" THEN GenLoopTop(twin, query).gen ELSE twin
    /\ UNCHANGED last_call

PairRespond(resp) ==
    /\ Respond(resp)
    /\ twin' = IF twin.pc = "fetching" THEN GenRespond(twin, resp) ELSE twin
    /\ UNCHANGED last_call

PairAfterLoop ==
    /\ AfterLoop
    /\ twin' = IF twin.pc = "afterloop" THEN GenAfterLoop(twin) ELSE twin
    /\ UNCHANGED last_call

NextPair ==
    \/ \E m \in Budgets : PairSearchAll(m)
    \/ PairPull
    \/ PairLoopTop
    \/ \E resp \in Answers(Len(requests)) : PairRespond(resp)
    \/ PairAfterLoop
    \/ Stop /\ UNCHANGED aux

SpecPair == Init /\ [][NextPair]_<<vars, aux>>

\* Two generators made from the same builder and advanced in any order, each
\* with its own answers.  The second generator's steps:
TwinSearchAll(isTyped, m) ==
    /\ twin.pc = "idle"
    /\ twin' = GenCreate(isTyped, m)
    /\ UNCHANGED <<vars, last_call>>

TwinPull ==
    /\ twin.pc \in {"created", "suspended"}
    /\ twin' = GenPull(twin)
    /\ UNCHANGED <<vars, last_call>>

TwinLoopTop ==
    /\ twin.pc = "looptop"
    /\ BudgetSpent(twin.max_records, twin.records_fetched)
          \/ Len(twin.requests) < MaxFetches
    /\ LET step == GenLoopTop(twin, query)
       IN /\ twin' = step.gen
          /\ query' = step.caller
    /\ UNCHANGED <<locals, last_call>>

TwinRespond(resp) ==
    /\ twin.pc = "fetching"
    /\ twin' = GenRespond(twin, resp)
    /\ UNCHANGED <<vars, last_call>>

TwinAfterLoop ==
    /\ twin.pc = "afterloop"
    /\ twin' = GenAfterLoop(twin)
    /\ UNCHANGED <<vars, last_call>>

\* the answers and budgets of the two-generator runs
TwoAnswers(k) ==
    {[ok |-> TRUE, data |-> [items |-> RawItems(k, 2), nextCursor |-> "c1"]],
     [ok |-> TRUE, data |-> [items |-> RawItems(k, 1)]],
     [ok |-> FALSE, data |-> <<>>]}
TwoBudgets == {None, Some(3)}

\* the first generator on its own
NextAlone ==
    \/ \E t \in BOOLEAN, m \in TwoBudgets : SearchAll(t, m) /\ UNCHANGED aux
    \/ Pull /\ UNCHANGED aux
    \/ LoopTop /\ UNCHANGED aux
    \/ \E resp \in TwoAnswers(Len(requests)) : Respond(resp) /\ UNCHANGED aux
    \/ AfterLoop /\ UNCHANGED aux

NextTwo ==
    \/ NextAlone
    \/ \E t \in BOOLEAN, m \in TwoBudgets : TwinSearchAll(t, m)
    \/ TwinPull
    \/ TwinLoopTop
    \/ \E resp \in TwoAnswers(Len(twin.requests)) : TwinRespond(resp)
    \/ TwinAfterLoop

SpecTwo == Init /\ [][NextTwo]_<<vars, aux>>

-----------------------------------------------------------------------------
(* The field enums.  AggregateField and SearchField are StrEnum: a member is  *)
(* the str of its value, equal to it and hashed like it as a dict key.        *)

WHO == <<"w", "h", "o">>
TYPE == <<"T", "Y", "P", "E">>
YEAR == <<"Y", "E", "A", "R">>
PROVIDER == <<"P", "R", "O", "V", "I", "D", "E", "R">>
DATA_PROVIDER == <<"D", "A", "T", "A", "_", "P", "R", "O", "V", "I", "D", "E", "R">>
RIGHTS == <<"R", "I", "G", "H", "T", "S">>
COUNTRY == <<"C", "O", "U", "N", "T", "R", "Y">>
LANGUAGE == <<"L", "A", "N", "G", "U", "A", "G", "E">>
PROXY_DC_CREATOR == <<"p", "r", "o", "x", "y", "_", "d", "c", "_", "c", "r", "e", "a", "t", "o", "r">>
PROXY_DC_CONTRIBUTOR == <<"p", "r", "o", "x", "y", "_", "d", "c", "_", "c", "o", "n", "t", "r", "i", "b", "u", "t", "o", "r">>
PROXY_DC_SUBJECT == <<"p", "r", "o", "x", "y", "_", "d", "c", "_", "s", "u", "b", "j", "e", "c", "t">>
PROXY_DC_TYPE == <<"p", "r", "o", "x", "y", "_", "d", "c", "_", "t", "y", "p", "e">>
PROXY_DC_RIGHTS == <<"p", "r", "o", "x", "y", "_", "d", "c", "_", "r", "i", "g", "h", "t", "s">>
PROXY_DCTERMS_MEDIUM == <<"p", "r", "o", "x", "y", "_", "d", "c", "t", "e", "r", "m", "s", "_", "m", "e", "d", "i", "u", "m">>
PROXY_DCTERMS_SPATIAL == <<"p", "r", "o", "x", "y", "_", "d", "c", "t", "e", "r", "m", "s", "_", "s", "p", "a", "t", "i", "a", "l">>

FACETABLE_FIELDS ==
    <<PROXY_DC_CREATOR, PROXY_DC_CONTRIBUTOR, PROXY_DC_SUBJECT, PROXY_DC_TYPE,
      PROXY_DC_RIGHTS, PROXY_DCTERMS_MEDIUM, PROXY_DCTERMS_SPATIAL, TYPE, PROVIDER,
      DATA_PROVIDER, RIGHTS, COUNTRY, LANGUAGE>>

\* x in a_list
InList(x, a_list) == \E i \in 1..Len(a_list) : a_list[i] = x

-----------------------------------------------------------------------------
(* QueryBuilder: the setters *)

\* QueryBuilder.who(name)
who(q, name) == [q EXCEPT !._filters = DictSet(q._filters, WHO, name)]

\* QueryBuilder.media_type(media_type): a MediaType member is replaced by its value
media_type(q, mt) ==
    LET v == IF mt.t = "enum" THEN PyStr(mt.s) ELSE mt
    IN [q EXCEPT !._filters = DictSet(q._filters, TYPE, v)]

\* QueryBuilder.type_filter(value)
type_filter(q, value) == [q EXCEPT !._filters = DictSet(q._filters, TYPE, value)]

\* QueryBuilder.year_filter(value)
year_filter(q, value) == [q EXCEPT !._filters = DictSet(q._filters, YEAR, value)]

TO == <<" ", "T", "O", " ">>

\* f"[{start} TO {end}]", an absent bound written *
YearRange(start, end) ==
    <<"[">> \o (IF IsNone(start) THEN <<"*">> ELSE IntToText(Val(start))) \o TO
           \o (IF IsNone(end) THEN <<"*">> ELSE IntToText(Val(end))) \o <<"]">>

\* a variant that stores the range open at both ends when no bound is passed
time_period_OpenRange(q, start_year, end_year) ==
    IF TruthyInt(start_year) \/ TruthyInt(end_year)
    THEN [q EXCEPT !._filters =
              DictSet(q._filters, YEAR,
                      PyStr(YearRange(IF TruthyInt(start_year) THEN start_year ELSE None,
                                      IF TruthyInt(end_year) THEN end_year ELSE None)))]
    ELSE [q EXCEPT !._filters = DictSet(q._filters, YEAR, PyStr(YearRange(None, None)))]

\* QueryBuilder.time_period(start_year, end_year)
time_period(q, start_year, end_year) ==
    IF TruthyInt(start_year) /\ TruthyInt(end_year)
    THEN [q EXCEPT !._filters =
              DictSet(q._filters, YEAR, PyStr(YearRange(start_year, end_year)))]
    ELSE IF TruthyInt(start_year)
    THEN [q EXCEPT !._filters =
              DictSet(q._filters, YEAR, PyStr(YearRange(start_year, None)))]
    ELSE IF TruthyInt(end_year)
    THEN [q EXCEPT !._filters =
              DictSet(q._filters, YEAR, PyStr(YearRange(None, end_year)))]
    ELSE q

\* QueryBuilder.text_query(query)
text_query(q, t) == [q EXCEPT !._text_query = Some(t)]

\* QueryBuilder.geographic(lat, lon, radius_km)
geographic(q, lat, lon, radius_km) ==
    [q EXCEPT !._geographic = Some(<<lat, lon, radius_km>>)]

\* a variant without the clamp
rows_NoClamp(q, count) == [q EXCEPT !._rows = count]

\* QueryBuilder.rows(count)
rows(q, count) == [q EXCEPT !._rows = Min(count, MAX_ROWS)]

\* position of the first field of field_names that is not in FACETABLE_FIELDS,
\* 0 when there is none
FirstRejected(field_names) ==
    IF \A i \in 1..Len(field_names) : InList(field_names[i], FACETABLE_FIELDS)
    THEN 0
    ELSE CHOOSE i \in 1..Len(field_names) :
             /\ ~InList(field_names[i], FACETABLE_FIELDS)
             /\ \A j \in 1..(i - 1) : InList(field_names[j], FACETABLE_FIELDS)

\* a variant that validates nothing
facets_Unchecked(q, field_names) ==
    [q |-> [q EXCEPT !._facets = q._facets \o field_names], raised |-> None]

\* QueryBuilder.facets(*field_names): the fields are appended one by one until
\* one is rejected (q: the builder afterwards, raised: None or the ValueError)
facets(q, field_names) ==
    LET bad == FirstRejected(field_names)
    IN IF bad = 0
       THEN [q |-> [q EXCEPT !._facets = q._facets \o field_names], raised |-> None]
       ELSE [q |-> [q EXCEPT !._facets = q._facets \o SubSeq(field_names, 1, bad - 1)],
             raised |-> Some([type |-> "ValueError", field |-> field_names[bad],
                              valid |-> FACETABLE_FIELDS])]

-----------------------------------------------------------------------------
(* EuropeanaClient.search_raw called directly *)

\* a variant in which the builder's parameters win over the keyword arguments
search_raw_request_NoOverride(q, cur, kwargs) == search_raw_params(q, cur) @@ kwargs

\* the params of search_raw(query, cursor, **kwargs): params.update(kwargs)
\* replaces the entries built from the builder
search_raw_request(q, cur, kwargs) == kwargs @@ search_raw_params(q, cur)

\* a variant that writes the match-all wildcard into a builder that compiles to
\* the empty string
search_raw_StoresWildcard(q, cur, kwargs, resp) ==
    [caller |-> IF get_query_string(q) = <<>>
                THEN [q EXCEPT !._text_query = Some(MATCH_ALL)] ELSE q,
     params |-> search_raw_request(q, cur, kwargs),
     raised |-> IF RaisesForStatus(resp) THEN Some([type |-> "HTTPStatusError"]) ELSE None,
     results |-> IF RaisesForStatus(resp) THEN None ELSE Some(SearchResults(resp.data, q))]

\* search_raw(query, cursor, **kwargs) answered by resp: the builder it was
\* given, afterwards, the request sent, and the SearchResults returned or the
\* exception of raise_for_status
search_raw(q, cur, kwargs, resp) ==
    [caller |-> q,
     params |-> search_raw_request(q, cur, kwargs),
     raised |-> IF RaisesForStatus(resp) THEN Some([type |-> "HTTPStatusError"]) ELSE None,
     results |-> IF RaisesForStatus(resp) THEN None ELSE Some(SearchResults(resp.data, q))]

\* the record of a call: its name and arguments, the builder before it, the
\* exception it raised (None when it returned) and what it returned or sent
Call(op, args, before, raised, result) ==
    [op |-> op, args |-> args, before |-> before, raised |-> raised, result |-> result]

\* the builder may hold at most this many facet fields
MaxFacets == 2

\* arguments of the calls
RowCounts == {-5, 0, 10, DEFAULT_ROWS, DEFAULT_ROWS + 1, 150}
AssignedRows == {500}
FacetNames == {TYPE, COUNTRY, YEAR}
FacetArgs ==
    {<<>>} \cup {<<a>> : a \in FacetNames} \cup {<<a, b>> : a \in FacetNames, b \in FacetNames}
KwargSets ==
    {<<>>, [rows |-> IntToText(500)], [rows |-> IntToText(50)], [profile |-> "minimal"]}
FacetSummary == <<[name |-> "TYPE", fields |-> <<[label |-> "IMAGE", count |-> 1]>>]>>
RequestAnswers ==
    {[ok |-> TRUE, data |-> [items |-> RawItems(1, 1), totalResults |-> 1,
                             facets |-> FacetSummary]],
     [ok |-> TRUE, data |-> [items |-> RawItems(1, 1), totalResults |-> 1]],
     [ok |-> FALSE, data |-> <<>>]}

\* query.rows(count)
Rows(count) ==
    /\ query' = rows(query, count)
    /\ last_call' = Call("rows", <<count>>, query, None, None)
    /\ UNCHANGED <<locals, twin>>

\* a row count written to the builder's attribute, as search_all_raw does on its
\* copy: page_query._rows = rows
AssignRows(count) ==
    /\ query' = [query EXCEPT !._rows = count]
    /\ last_call' = Call("_rows", <<count>>, query, None, None)
    /\ UNCHANGED <<locals, twin>>

\* query.facets(*field_names)
Facets(field_names) ==
    /\ Len(query._facets) + Len(field_names) <= MaxFacets
    /\ LET out == facets(query, field_names)
       IN /\ query' = out.q
          /\ last_call' = Call("facets", field_names, query, out.raised, None)
    /\ UNCHANGED <<locals, twin>>

\* client.search_raw(query, **kwargs), answered by resp
SearchRaw(kwargs, resp) ==
    /\ LET out == search_raw(query, Some(START_CURSOR), kwargs, resp)
       IN /\ query' = out.caller
          /\ last_call' = Call("search_raw", kwargs, query, out.raised,
                               [params |-> out.params, response |-> resp,
                                results |-> out.results])
    /\ UNCHANGED <<locals, twin>>

NextRequest ==
    \/ \E count \in RowCounts : Rows(count)
    \/ \E count \in AssignedRows : AssignRows(count)
    \/ \E field_names \in FacetArgs : Facets(field_names)
    \/ \E kwargs \in KwargSets, resp \in RequestAnswers : SearchRaw(kwargs, resp)

SpecRequest == Init /\ [][NextRequest]_<<vars, aux>>

-----------------------------------------------------------------------------
(* build_query_string called directly *)

\* filter values are tried up to this length
MaxValueLen == 3

\* the characters of the values: a letter, the space, the double quote
ValueChars == {"a", " ", "\""}
ValueTexts == UNION {[1..n -> ValueChars] : n \in 0..MaxValueLen}

\* the free texts: absent, empty, one word, two words
FreeTexts == {None, Some(<<>>), Some(<<"x">>), Some(<<"x", " ", "y">>)}

\* the filter maps: up to two entries, in either order, with str, enum, bool and
\* int values (an absent map and an empty one are both <<>>)
TermValues ==
    {PyStr(<<"a">>), PyStr(<<"a", " ", "b">>), PyStr(<<"\"", "a", " ", "b", "\"">>),
     PyEnum(<<"I", "M", "A", "G", "E">>), PyBool(TRUE), PyInt(5)}
FilterMaps ==
    {<<>>}
    \cup {<<[k |-> f, v |-> v]>> : f \in {WHO, TYPE}, v \in TermValues}
    \cup {<<[k |-> WHO, v |-> v], [k |-> TYPE, v |-> w]>> : v \in TermValues, w \in TermValues}
    \cup {<<[k |-> TYPE, v |-> v], [k |-> WHO, v |-> w]>> : v \in TermValues, w \in TermValues}

\* the value part of the one term compiled from the filter map {field_name: v}
EmittedValue(field_name, v) ==
    LET compiled == build_query_string(None, <<[k |-> field_name, v |-> PyStr(v)]>>)
    IN SubSeq(compiled, Len(field_name) + 2, Len(compiled))

\* build_query_string(text, filters)
BuildQueryString(text, filters) ==
    /\ last_call' = Call("build_query_string", [text |-> text, filters |-> filters],
                         query, None, build_query_string(text, filters))
    /\ UNCHANGED <<vars, twin>>

\* build_query_string(None, {"who": v}), and again with the value it emitted
Recompile(v) ==
    /\ LET once == EmittedValue(WHO, v)
       IN last_call' = Call("recompile", <<v>>, query, None,
                            [once |-> once, twice |-> EmittedValue(WHO, once)])
    /\ UNCHANGED <<vars, twin>>

NextCompile ==
    \/ \E text \in FreeTexts, filters \in FilterMaps : BuildQueryString(text, filters)
    \/ \E v \in ValueTexts : Recompile(v)

SpecCompile == Init /\ [][NextCompile]_<<vars, aux>>

-----------------------------------------------------------------------------
(* The builder's filter setters and geographic() called in any order *)

\* arguments of the calls
MediaTypes == {PyEnum(<<"I", "M", "A", "G", "E">>), PyStr(<<"a">>)}
Years == {None, Some(0), Some(1900)}
Places == {<<52, 13, 10>>, <<0, 0, 1>>}
\* plain string names of enum-backed fields, as passed to field()
PlainNames == {TYPE, YEAR}

\* query.who(name)
Who(name) ==
    /\ query' = who(query, name)
    /\ last_call' = Call("who", <<name>>, query, None, None)
    /\ UNCHANGED <<locals, twin>>

\* query.media_type(mt)
MediaType(mt) ==
    /\ query' = media_type(query, mt)
    /\ last_call' = Call("media_type", <<mt>>, query, None, None)
    /\ UNCHANGED <<locals, twin>>

\* query.type_filter(value)
TypeFilter(value) ==
    /\ query' = type_filter(query, value)
    /\ last_call' = Call("type_filter", <<value>>, query, None, None)
    /\ UNCHANGED <<locals, twin>>

\* query.year_filter(value)
YearFilter(value) ==
    /\ query' = year_filter(query, value)
    /\ last_call' = Call("year_filter", <<value>>, query, None, None)
    /\ UNCHANGED <<locals, twin>>

\* query.time_period(start_year, end_year)
TimePeriod(start_year, end_year) ==
    /\ query' = time_period(query, start_year, end_year)
    /\ last_call' = Call("time_period", <<start_year, end_year>>, query, None, None)
    /\ UNCHANGED <<locals, twin>>

\* query.field(field_name, value)
Field(field_name, value) ==
    /\ query' = field(query, field_name, value)
    /\ last_call' = Call("field", <<field_name, value>>, query, None, None)
    /\ UNCHANGED <<locals, twin>>

\* query.geographic(lat, lon, radius_km)
Geographic(place) ==
    /\ query' = geographic(query, place[1], place[2], place[3])
    /\ last_call' = Call("geographic", place, query, None, None)
    /\ UNCHANGED <<locals, twin>>

NextFilters ==
    \/ \E name \in FilterValues : Who(name)
    \/ \E mt \in MediaTypes : MediaType(mt)
    \/ \E value \in FilterValues : TypeFilter(value)
    \/ \E value \in FilterValues : YearFilter(value)
    \/ \E start_year \in Years, end_year \in Years : TimePeriod(start_year, end_year)
    \/ \E field_name \in PlainNames, value \in FilterValues : Field(field_name, value)
    \/ \E place \in Places : Geographic(place)

SpecFilters == Init /\ [][NextFilters]_<<vars, aux>>

-----------------------------------------------------------------------------
(* Rights filters and the reusability level *)

\* RightsCategories
PDM_URI ==
    <<"h", "t", "t", "p", ":", "/", "/", "c", "r", "e", "a", "t", "i", "v", "e", "c",
      "o", "m", "m", "o", "n", "s", ".", "o", "r", "g", "/", "p", "u", "b", "l", "i",
      "c", "d", "o", "m", "a", "i", "n", "/", "m", "a", "r", "k", "/", "1", ".", "0",
      "/">>
CC0_URI ==
    <<"h", "t", "t", "p", ":", "/", "/", "c", "r", "e", "a", "t", "i", "v", "e", "c",
      "o", "m", "m", "o", "n", "s", ".", "o", "r", "g", "/", "p", "u", "b", "l", "i",
      "c", "d", "o", "m", "a", "i", "n", "/", "z", "e", "r", "o", "/", "1", ".", "0",
      "/">>
CREATIVE_COMMONS ==
    <<"*", "c", "r", "e", "a", "t", "i", "v", "e", "*">>
CC_BY ==
    <<"h", "t", "t", "p", ":", "/", "/", "c", "r", "e", "a", "t", "i", "v", "e", "c",
      "o", "m", "m", "o", "n", "s", ".", "o", "r", "g", "/", "l", "i", "c", "e", "n",
      "s", "e", "s", "/", "b", "y", "/", "*">>
CC_BY_SA ==
    <<"h", "t", "t", "p", ":", "/", "/", "c", "r", "e", "a", "t", "i", "v", "e", "c",
      "o", "m", "m", "o", "n", "s", ".", "o", "r", "g", "/", "l", "i", "c", "e", "n",
      "s", "e", "s", "/", "b", "y", "-", "s", "a", "/", "*">>
CC_BY_ND ==
    <<"h", "t", "t", "p", ":", "/", "/", "c", "r", "e", "a", "t", "i", "v", "e", "c",
      "o", "m", "m", "o", "n", "s", ".", "o", "r", "g", "/", "l", "i", "c", "e", "n",
      "s", "e", "s", "/", "b", "y", "-", "n", "d", "/", "*">>
CC_BY_NC ==
    <<"h", "t", "t", "p", ":", "/", "/", "c", "r", "e", "a", "t", "i", "v", "e", "c",
      "o", "m", "m", "o", "n", "s", ".", "o", "r", "g", "/", "l", "i", "c", "e", "n",
      "s", "e", "s", "/", "b", "y", "-", "n", "c", "/", "*">>
CC_BY_NC_SA ==
    <<"h", "t", "t", "p", ":", "/", "/", "c", "r", "e", "a", "t", "i", "v", "e", "c",
      "o", "m", "m", "o", "n", "s", ".", "o", "r", "g", "/", "l", "i", "c", "e", "n",
      "s", "e", "s", "/", "b", "y", "-", "n", "c", "-", "s", "a", "/", "*">>
CC_BY_NC_ND ==
    <<"h", "t", "t", "p", ":", "/", "/", "c", "r", "e", "a", "t", "i", "v", "e", "c",
      "o", "m", "m", "o", "n", "s", ".", "o", "r", "g", "/", "l", "i", "c", "e", "n",
      "s", "e", "s", "/", "b", "y", "-", "n", "c", "-", "n", "d", "/", "*">>

\* Reusability members and a level passed as a plain str
ReusabilityOPEN == [t |-> "Reusability", v |-> "open"]
ReusabilityRESTRICTED == [t |-> "Reusability", v |-> "restricted"]
StrLevel(v) == [t |-> "str", v |-> v]

\* str.lower(), character by character
LowerChar(c) ==
    CASE c = "A" -> "a"
      [] c = "B" -> "b"
      [] c = "C" -> "c"
      [] c = "D" -> "d"
      [] c = "E" -> "e"
      [] c = "F" -> "f"
      [] c = "G" -> "g"
      [] c = "H" -> "h"
      [] c = "I" -> "i"
      [] c = "J" -> "j"
      [] c = "K" -> "k"
      [] c = "L" -> "l"
      [] c = "M" -> "m"
      [] c = "N" -> "n"
      [] c = "O" -> "o"
      [] c = "P" -> "p"
      [] c = "Q" -> "q"
      [] c = "R" -> "r"
      [] c = "S" -> "s"
      [] c = "T" -> "t"
      [] c = "U" -> "u"
      [] c = "V" -> "v"
      [] c = "W" -> "w"
      [] c = "X" -> "x"
      [] c = "Y" -> "y"
      [] c = "Z" -> "z"
      [] OTHER -> c
lower(t) == [k \in 1..Len(t) |-> LowerChar(t[k])]

\* license_map of creative_commons, and license_map.get(key, default)
license_map ==
    <<[k |-> <<"b", "y">>, v |-> CC_BY],
      [k |-> <<"b", "y", "-", "s", "a">>, v |-> CC_BY_SA],
      [k |-> <<"b", "y", "-", "n", "d">>, v |-> CC_BY_ND],
      [k |-> <<"b", "y", "-", "n", "c">>, v |-> CC_BY_NC],
      [k |-> <<"b", "y", "-", "n", "c", "-", "s", "a">>, v |-> CC_BY_NC_SA],
      [k |-> <<"b", "y", "-", "n", "c", "-", "n", "d">>, v |-> CC_BY_NC_ND]>>

\* f"({RightsCategories.PDM_URI} OR {RightsCategories.CC0_URI})"
PublicDomainFilter ==
    <<"(">> \o PDM_URI \o <<" ", "O", "R", " ">> \o CC0_URI \o <<")">>

\* a variant that sets the filter only
public_domain_FilterOnly(q) ==
    [q EXCEPT !._filters = DictSet(q._filters, RIGHTS, PyStr(PublicDomainFilter))]

\* QueryBuilder.public_domain()
public_domain(q) ==
    [q EXCEPT !._filters = DictSet(q._filters, RIGHTS, PyStr(PublicDomainFilter)),
              !._reusability = Some(ReusabilityOPEN)]

\* QueryBuilder.creative_commons(license_type)
creative_commons(q, license_type) ==
    LET rights_filter ==
            IF TruthyText(license_type)
            THEN DictGet(license_map, lower(Val(license_type)), CREATIVE_COMMONS)
            ELSE CREATIVE_COMMONS
    IN [q EXCEPT !._filters = DictSet(q._filters, RIGHTS, PyStr(rights_filter))]

\* QueryBuilder.reusability(level)
reusability(q, level) == [q EXCEPT !._reusability = Some(level)]

\* client.search(query) answered by resp: search_raw, then
\* StructuredSearchResults.from_search_results
search_typed(q, cur, resp) ==
    LET raw == search_raw(q, cur, <<>>, resp)
    IN [raw EXCEPT !.results = IF IsNone(raw.results) THEN None
                               ELSE Some(from_search_results(Val(raw.results)))]

\* arguments of the calls
LicenseTypes == {None, Some(<<"B", "Y">>), Some(<<"b", "y", "-", "s", "a">>), Some(<<"z">>)}
Levels == {ReusabilityRESTRICTED, StrLevel("open"), StrLevel("")}
QueryTexts == {<<>>, <<"x">>}

\* query.public_domain()
PublicDomain ==
    /\ query' = public_domain(query)
    /\ last_call' = Call("public_domain", <<>>, query, None, None)
    /\ UNCHANGED <<locals, twin>>

\* query.creative_commons(license_type)
CreativeCommons(license_type) ==
    /\ query' = creative_commons(query, license_type)
    /\ last_call' = Call("creative_commons", <<license_type>>, query, None, None)
    /\ UNCHANGED <<locals, twin>>

\* query.reusability(level)
Reusability(level) ==
    /\ query' = reusability(query, level)
    /\ last_call' = Call("reusability", <<level>>, query, None, None)
    /\ UNCHANGED <<locals, twin>>

\* query.text_query(t)
TextQuery(t) ==
    /\ query' = text_query(query, t)
    /\ last_call' = Call("text_query", <<t>>, query, None, None)
    /\ UNCHANGED <<locals, twin>>

\* query.get_query_string()
GetQueryString ==
    /\ last_call' = Call("get_query_string", <<>>, query, None, get_query_string(query))
    /\ UNCHANGED <<vars, twin>>

\* client.search(query), answered by resp
Search(resp) ==
    /\ LET out == search_typed(query, Some(START_CURSOR), resp)
       IN /\ query' = out.caller
          /\ last_call' = Call("search", <<>>, query, out.raised,
                               [params |-> out.params, response |-> resp,
                                results |-> out.results])
    /\ UNCHANGED <<locals, twin>>

NextSearch ==
    \/ \E name \in FilterValues : Who(name)
    \/ PublicDomain
    \/ \E license_type \in LicenseTypes : CreativeCommons(license_type)
    \/ \E level \in Levels : Reusability(level)
    \/ \E t \in QueryTexts : TextQuery(t)
    \/ GetQueryString
    \/ \E kwargs \in KwargSets, resp \in RequestAnswers : SearchRaw(kwargs, resp)
    \/ \E resp \in RequestAnswers : Search(resp)

SpecSearch == Init /\ [][NextSearch]_<<vars, aux>>

-----------------------------------------------------------------------------
(* One caller that iterates with search_all / search_all_raw, assigns filters *)
(* and runs single searches between its pulls.                                *)

\* the generator is not running: the caller has the control
CallerRuns == pc \in {"idle", "created", "suspended", "done", "error"}

NextFrame ==
    \/ \E t \in BOOLEAN, m \in {None, Some(3)} : SearchAll(t, m) /\ UNCHANGED aux
    \/ Pull /\ UNCHANGED aux
    \/ LoopTop /\ UNCHANGED aux
    \/ \E resp \in ShortAnswers(Len(requests)) : Respond(resp) /\ UNCHANGED aux
    \/ AfterLoop /\ UNCHANGED aux
    \/ Stop /\ UNCHANGED aux
    \/ \E name \in FilterNames, value \in FilterValues :
          CallerRuns /\ Field(name, value)
    \/ \E resp \in RequestAnswers : CallerRuns /\ SearchRaw(<<>>, resp)
    \/ \E resp \in RequestAnswers : CallerRuns /\ Search(resp)

SpecFrame == Init /\ [][NextFrame]_<<vars, aux>>

-----------------------------------------------------------------------------
(* Two iterations of the same kind over builders that differ in their rows    *)
(* setting only, pulled together and given the same answers.                  *)

\* the builder of the second iteration: the caller's, with rows(10) called on it
OtherRows(q) == rows(q, 10)

RowsSearchAll(isTyped, m) ==
    /\ SearchAll(isTyped, m)
    /\ twin' = GenCreate(isTyped, m)
    /\ UNCHANGED last_call

RowsLoopTop ==
    /\ LoopTop
    /\ twin' = IF twin.pc = "looptop" THEN GenLoopTop(twin, OtherRows(query)).gen ELSE twin
    /\ UNCHANGED last_call

NextRows ==
    \/ \E count \in RowCounts : CallerRuns /\ Rows(count)
    \/ \E t \in BOOLEAN, m \in Budgets : RowsSearchAll(t, m)
    \/ PairPull
    \/ RowsLoopTop
    \/ \E resp \in TwoAnswers(Len(requests)) : PairRespond(resp)
    \/ PairAfterLoop
    \/ Stop /\ UNCHANGED aux

SpecRows == Init /\ [][NextRows]_<<vars, aux>>

-----------------------------------------------------------------------------
(* An iteration with a budget of at least one record, by a caller that keeps *)
(* pulling.  A resumed generator runs on to its next yield or its end, and    *)
(* search_raw returns or raises for every request (the httpx client has a    *)
(* timeout), hence the fairness on the four steps.                           *)

\* budgets that the bound on the number of fetches cannot cut short
PositiveBudgets == {Some(n) : n \in 1..MaxFetches}

NextLive ==
    \/ \E t \in BOOLEAN, m \in PositiveBudgets : SearchAll(t, m) /\ UNCHANGED aux
    \/ Pull /\ UNCHANGED aux
    \/ LoopTop /\ UNCHANGED aux
    \/ \E resp \in Answers(Len(requests)) : Respond(resp) /\ UNCHANGED aux
    \/ AfterLoop /\ UNCHANGED aux

SpecLive ==
    /\ Init
    /\ [][NextLive]_<<vars, aux>>
    /\ WF_vars(Pull)
    /\ WF_vars(LoopTop)
    /\ WF_vars(\E resp \in Answers(Len(requests)) : Respond(resp))
    /\ WF_vars(AfterLoop)

-----------------------------------------------------------------------------
(* The Entity API: identifiers of place entities *)

\* "http://data.europeana.eu/"
DATA_URI ==
    <<"h", "t", "t", "p", ":", "/", "/", "d", "a", "t", "a", ".", "e", "u", "r", "o", "p", "e", "a", "n", "a", ".", "e", "u", "/">>

\* "http://data.europeana.eu/place/"
PLACE_URI == DATA_URI \o <<"p", "l", "a", "c", "e", "/">>

\* "place/"
PLACE_PATH == <<"p", "l", "a", "c", "e", "/">>

\* "https://api.europeana.eu/entity/"
ENTITY_API ==
    <<"h", "t", "t", "p", "s", ":", "/", "/", "a", "p", "i", ".", "e", "u", "r", "o", "p", "e", "a", "n", "a", ".", "e", "u", "/", "e", "n", "t", "i", "t", "y", "/">>

\* s.startswith(p)
startswith(s, p) == Len(s) >= Len(p) /\ SubSeq(s, 1, Len(p)) = p

\* s.replace(old, new): every occurrence of old, from the left
RECURSIVE replace(_, _, _)
replace(s, old, new) ==
    IF Len(s) = 0 THEN <<>>
    ELSE IF startswith(s, old)
    THEN new \o replace(SubSeq(s, Len(old) + 1, Len(s)), old, new)
    ELSE <<Head(s)>> \o replace(Tail(s), old, new)

\* s.strip(): leading and trailing whitespace removed
Whitespace == {" ", "\n", "\t", "\r"}
strip(s) ==
    LET kept == {i \in 1..Len(s) : s[i] \notin Whitespace}
    IN IF kept = {} THEN <<>>
       ELSE SubSeq(s, CHOOSE i \in kept : \A j \in kept : i <= j,
                      CHOOSE i \in kept : \A j \in kept : i >= j)

\* the text matched by (.+) at the start of s: its characters up to the first
\* line break, empty when the pattern does not match
DotPlus(s) ==
    LET breaks == {i \in 1..Len(s) : s[i] = "\n"}
    IN IF breaks = {} THEN s
       ELSE SubSeq(s, 1, (CHOOSE i \in breaks : \A j \in breaks : i <= j) - 1)

ValueError == [type |-> "ValueError"]

\* a variant that takes every identifier that is no full URI as a path
_extract_entity_path_AnyPath(entity_uri) ==
    IF startswith(entity_uri, DATA_URI)
    THEN LET group == DotPlus(SubSeq(entity_uri, Len(DATA_URI) + 1, Len(entity_uri)))
         IN IF Len(group) > 0
            THEN [raised |-> None, path |-> Some(group)]
            ELSE [raised |-> Some(ValueError), path |-> None]
    ELSE [raised |-> None, path |-> Some(entity_uri)]

\* EuropeanaClient._extract_entity_path(entity_uri): the path returned, or the
\* exception raised
_extract_entity_path(entity_uri) ==
    IF startswith(entity_uri, DATA_URI)
    THEN LET group == DotPlus(SubSeq(entity_uri, Len(DATA_URI) + 1, Len(entity_uri)))
         IN IF Len(group) > 0
            THEN [raised |-> None, path |-> Some(group)]
            ELSE [raised |-> Some(ValueError), path |-> None]
    ELSE IF Contains(entity_uri, "/")
    THEN [raised |-> None, path |-> Some(entity_uri)]
    ELSE [raised |-> Some(ValueError), path |-> None]

\* EuropeanaClient.is_place_entity_uri(uri), for a str
is_place_entity_uri(uri) ==
    IF Len(uri) = 0 THEN FALSE
    ELSE IF startswith(uri, PLACE_URI)
    THEN Len(strip(replace(uri, PLACE_URI, <<>>))) > 0
    ELSE IF startswith(uri, PLACE_PATH)
    THEN Len(strip(replace(uri, PLACE_PATH, <<>>))) > 0
    ELSE FALSE

\* PlaceEntity.from_dict: the scalar fields are data.get(...)
PlaceEntity_from_dict(data) ==
    [cls |-> "PlaceEntity", id |-> Get(data, "id", None), type |-> Get(data, "type", None)]

\* EuropeanaClient.get_place_entity(entity_uri) answered by resp: the request
\* sent (None when none was), the exception raised and the entity returned
get_place_entity(entity_uri, resp) ==
    LET extracted == _extract_entity_path(entity_uri)
    IN IF ~IsNone(extracted.raised)
       THEN [sent |-> None, raised |-> extracted.raised, result |-> None]
       ELSE [sent |-> Some([url |-> ENTITY_API \o Val(extracted.path),
                            params |-> [wskey |-> api_key],
                            headers |-> [Accept |-> "application/json"]]),
             raised |-> IF RaisesForStatus(resp)
                        THEN Some([type |-> "HTTPStatusError"]) ELSE None,
             result |-> IF RaisesForStatus(resp) THEN None
                        ELSE Some(PlaceEntity_from_dict(resp.data))]

\* the identifiers: a head followed by at most MaxTailLen more characters
MaxTailLen == 2
EntityChars == {"9", "/", " ", "\n"}
EntityHeads == {<<>>, DATA_URI, PLACE_URI, PLACE_PATH, PLACE_PATH \o PLACE_PATH}
EntityTails == UNION {[1..n -> EntityChars] : n \in 0..MaxTailLen}
EntityUris == {h \o t : h \in EntityHeads, t \in EntityTails}
EntityAnswers ==
    {[ok |-> TRUE, data |-> [id |-> "http://data.europeana.eu/place/9", type |-> "Place"]],
     [ok |-> FALSE, data |-> <<>>]}

\* client._extract_entity_path(entity_uri)
ExtractEntityPath(entity_uri) ==
    /\ LET out == _extract_entity_path(entity_uri)
       IN last_call' = Call("_extract_entity_path", <<entity_uri>>, query, out.raised, out.path)
    /\ UNCHANGED <<vars, twin>>

\* client.is_place_entity_uri(uri)
IsPlaceEntityUri(uri) ==
    /\ last_call' = Call("is_place_entity_uri", <<uri>>, query, None, is_place_entity_uri(uri))
    /\ UNCHANGED <<vars, twin>>

\* client.get_place_entity(entity_uri), answered by resp when a request is sent
GetPlaceEntity(entity_uri, resp) ==
    /\ LET out == get_place_entity(entity_uri, resp)
       IN last_call' = Call("get_place_entity", <<entity_uri>>, query, out.raised,
                            [sent |-> out.sent, entity |-> out.result])
    /\ UNCHANGED <<vars, twin>>

NextEntity ==
    \/ \E entity_uri \in EntityUris : ExtractEntityPath(entity_uri)
    \/ \E uri \in EntityUris : IsPlaceEntityUri(uri)
    \/ \E entity_uri \in EntityUris, resp \in EntityAnswers : GetPlaceEntity(entity_uri, resp)

SpecEntity == Init /\ [][NextEntity]_<<vars, aux>>

-----------------------------------------------------------------------------
(* Reading the histories *)

LastOf(seq) == seq[Len(seq)]

\* the records a response carries (none when it failed or has no "items")
ItemsOf(resp) == IF resp.ok THEN Get(resp.data, "items", <<>>) ELSE <<>>

\* the continuation cursor a response carries, None when it has none
CursorOf(resp) ==
    IF resp.ok /\ "nextCursor" \in DOMAIN resp.data
    THEN Some(resp.data["nextCursor"]) ELSE None

HasCursor(resp) == TruthyStr(CursorOf(resp))

\* a non-empty page with a continuation cursor
ContinuingPage(resp) == resp.ok /\ Len(ItemsOf(resp)) > 0 /\ HasCursor(resp)

\* a page with no continuation cursor, or with zero items
TerminalPage(resp) == resp.ok /\ (~HasCursor(resp) \/ Len(ItemsOf(resp)) = 0)

\* the items of the first n responses, in fetch order
RECURSIVE ConcatItems(_, _)
ConcatItems(rs, n) ==
    IF n = 0 THEN <<>> ELSE ConcatItems(rs, n - 1) \o ItemsOf(rs[n])

IsPrefix(a, b) == Len(a) <= Len(b) /\ SubSeq(b, 1, Len(a)) = a

-----------------------------------------------------------------------------
(* Claims *)

\* C1: with max_records >= 1, search_all / search_all_raw never yield more than
\* max_records records, yield exactly max_records when every page answered is
\* non-empty and carries a cursor, and have no page fetch outstanding or issued
\* once the max_records-th record has been yielded.
C1_BudgetBound ==
    (~IsNone(max_records) /\ Val(max_records) >= 1) =>
        /\ Len(yielded) <= Val(max_records)
        /\ (Len(yielded) >= Val(max_records) =>
                /\ pc \in {"suspended", "done"}
                /\ inflight = 0
                /\ Len(requests) = Len(responses))
        /\ ((pc = "done" /\ \A k \in 1..Len(responses) : ContinuingPage(responses[k]))
                => Len(yielded) = Val(max_records))

\* three pages of 100 requested with max_records = 250: the iteration has ended
\* in the middle of the third page with 250 records
C1_Witness ==
    /\ pc = "done"
    /\ max_records = Some(2 * DEFAULT_ROWS + 50)
    /\ Len(yielded) = 2 * DEFAULT_ROWS + 50
    /\ Len(requests) = 3
    /\ pos < Len(results.items)

\* C2: with max_records = None the records yielded by search_all_raw are the
\* concatenation, in fetch and item order, of the items of the pages fetched, each
\* item once: a prefix of it while a page is drained, all of it at the end, which
\* comes with the first page that has no cursor or no items.
C2_Concatenation ==
    (pc # "idle" /\ IsNone(max_records) /\ ~typed) =>
        /\ (pc \in {"suspended", "afterloop"} =>
                yielded = ConcatItems(responses, Len(responses) - 1)
                          \o SubSeq(ItemsOf(LastOf(responses)), 1, pos))
        /\ (pc \in {"created", "looptop", "fetching", "error"} =>
                yielded = ConcatItems(responses, Len(responses)))
        /\ (pc = "done" =>
                /\ Len(responses) > 0
                /\ yielded = ConcatItems(responses, Len(responses))
                /\ TerminalPage(LastOf(responses))
                /\ \A k \in 1..(Len(responses) - 1) : ContinuingPage(responses[k]))

\* three pages of 100 items, the last without a cursor: 300 records, then the end
C2_Witness ==
    /\ pc = "done"
    /\ IsNone(max_records)
    /\ ~typed
    /\ Len(responses) = 3
    /\ IsNone(CursorOf(responses[3]))
    /\ Len(yielded) = 3 * DEFAULT_ROWS

\* C3: once a page with no continuation cursor, or with zero items (even with a
\* cursor), has been received, no further request is ever issued, and when the
\* page is drained the iterator ends.
C3_TerminalPage ==
    [][(Len(responses) > 0 /\ TerminalPage(LastOf(responses))) =>
            /\ requests' = requests
            /\ (pc = "afterloop" => pc' = "done")]_vars

\* the iteration ended on a second page that had a cursor and zero items
C3_Witness ==
    /\ pc = "done"
    /\ Len(requests) = 2
    /\ Len(responses) = 2
    /\ HasCursor(responses[2])
    /\ Len(ItemsOf(responses[2])) = 0

\* C4: when the first page fetched is empty, no record is yielded and exactly one
\* page fetch is issued.
C4_EmptyFirstPage ==
    (Len(responses) >= 1 /\ responses[1].ok /\ Len(ItemsOf(responses[1])) = 0) =>
        /\ Len(yielded) = 0
        /\ Len(requests) = 1
        /\ pc \in {"afterloop", "done"}

\* search_all ended after an empty first page that carried a cursor
C4_Witness ==
    /\ pc = "done"
    /\ typed
    /\ Len(responses) = 1
    /\ responses[1].ok
    /\ Len(ItemsOf(responses[1])) = 0
    /\ HasCursor(responses[1])

\* C5: the first request of an iteration carries the start sentinel "*", and
\* every later request carries the continuation cursor of the page answered to
\* the request before it.
C5_CursorAdvance ==
    \A k \in 1..Len(requests) :
        requests[k].cursor = IF k = 1 THEN Some(START_CURSOR)
                             ELSE CursorOf(responses[k - 1])

\* a third request has been sent: the second carried "c1", the third "c2"
C5_Witness ==
    /\ Len(requests) = 3
    /\ requests[1].cursor = Some(START_CURSOR)
    /\ requests[2].cursor = Some("c1")
    /\ requests[3].cursor = Some("c2")


\* C6: the row count of each page request is min(DEFAULT_ROWS, max_records -
\* records yielded so far) when max_records is given (not None) and DEFAULT_ROWS
\* otherwise, and it lies in 1..DEFAULT_ROWS.
C6_RowsRequested ==
    pc = "fetching" =>
        LET r == IF ~IsNone(max_records)
                 THEN Min(DEFAULT_ROWS, Val(max_records) - Len(yielded))
                 ELSE DEFAULT_ROWS
        IN /\ LastOf(requests).rows = IntToText(r)
           /\ 1 <= r
           /\ r <= DEFAULT_ROWS

\* C7: the request of each page fetch is built from the caller's builder as it is
\* when that fetch begins (with the page's row count), and the requests already
\* sent are never changed by a later mutation of the builder.
C7_SnapshotPerPage ==
    [][/\ IsPrefix(requests, requests')
       /\ (Len(requests') > Len(requests) =>
              LastOf(requests') =
                  [search_raw_params(query, cursor) EXCEPT
                      !.rows = IntToText(PageRows(max_records, records_fetched))])]_vars

\* the builder was given who:a before the first fetch and who:"a b" while page 1
\* was drained: request 1 carries the former, request 2 the latter
C7_Witness ==
    /\ Len(requests) = 2
    /\ requests[1].query = <<"w", "h", "o", ":", "a">>
    /\ requests[2].query = <<"w", "h", "o", ":", "\"", "a", " ", "b", "\"">>
    /\ Len(yielded) = 2

\* C8: a failed page fetch ends the pull with an error: the generator is in its
\* error state and not in its normal end, no item is yielded for that page, and
\* afterwards no request is issued and nothing more is yielded.
C8_FetchError ==
    /\ []((Len(responses) > 0 /\ ~LastOf(responses).ok) =>
            (pc = "error" /\ inflight = 0 /\ Len(requests) = Len(responses)))
    /\ [][/\ (Len(responses') > Len(responses) /\ ~LastOf(responses').ok) =>
                (pc' = "error" /\ yielded' = yielded)
          /\ (pc = "error" =>
                (pc' = "error" /\ requests' = requests /\ yielded' = yielded))]_vars

\* the second page fetch failed after the 100 records of the first were yielded
C8_Witness ==
    /\ pc = "error"
    /\ Len(responses) = 2
    /\ ~responses[2].ok
    /\ Len(yielded) = DEFAULT_ROWS

\* C9: at most one request is outstanding; a request is issued only when none is
\* outstanding, the caller has not stopped, and every item of the page before
\* has been yielded; once the caller has stopped pulling no request is issued.
C9_Backpressure ==
    /\ [](inflight <= 1)
    /\ [][(Len(requests') > Len(requests)) =>
            /\ inflight = 0
            /\ ~stopped
            /\ pos = Len(results.items)
            /\ Len(yielded) >= pos
            /\ SubSeq(yielded, Len(yielded) - pos + 1, Len(yielded)) = results.items]_vars
    /\ [][stopped => requests' = requests]_vars

\* the caller stopped after the first record of the second page; the second
\* request went out after the 100 records of the first page
C9_Witness ==
    /\ stopped
    /\ pc = "suspended"
    /\ Len(requests) = 2
    /\ Len(yielded) = DEFAULT_ROWS + 1

\* the k-th answer is a non-empty page whose continuation cursor is the cursor the
\* k-th request was sent with
DuplicatePage(k) ==
    /\ responses[k].ok
    /\ Len(ItemsOf(responses[k])) > 0
    /\ CursorOf(responses[k]) = requests[k].cursor

\* C10 as stated: after a non-empty page that returns the cursor it was requested
\* with, the iteration ends: no request follows it.
C10_DuplicateDetection ==
    \A k \in 1..Len(responses) : DuplicatePage(k) => Len(requests) <= k

\* C10, amended: there is no duplicate-page detection.  A non-empty page that
\* returns the cursor it was requested with does not end the iteration: the
\* request that follows it carries that same cursor, and the iteration ends after
\* such a page only when the budget max_records is reached.
C10_NoDuplicateDetection ==
    \A k \in 1..Len(responses) :
        DuplicatePage(k) =>
            /\ (k < Len(requests) => requests[k + 1].cursor = requests[k].cursor)
            /\ ((pc = "done" /\ k = Len(responses)) =>
                    (TruthyInt(max_records) /\ Len(yielded) >= Val(max_records)))

\* the second page returned "c1", the cursor it was asked with, and the third
\* request is out with "c1" again
C10_Witness ==
    /\ Len(requests) = 3
    /\ Len(responses) = 2
    /\ DuplicatePage(2)
    /\ requests[3].cursor = Some("c1")
    /\ pc = "fetching"

C12_BudgetIsUpperBound ==
    ~IsNone(max_records) =>
        Len(yielded) <= (IF Val(max_records) < 0 THEN 0 ELSE Val(max_records))

\* C13: with two generators made from the same builder and advanced in any
\* order, the builder is never written, and every step that changes the first
\* generator's state is a step that generator takes when it runs alone and
\* leaves the second generator as it was (so no step of one changes the other).
C13_NoSharedState ==
    /\ [](query = QueryBuilder)
    /\ [][NextAlone]_vars

\* both generators have fetched twice, with different row counts, and yielded
C13_Witness ==
    /\ twin.pc \in {"suspended", "done"} /\ pc \in {"suspended", "done"}
    /\ Len(requests) = 2 /\ Len(twin.requests) = 2
    /\ max_records = None /\ twin.max_records = Some(3)
    /\ Len(yielded) = 3 /\ Len(twin.yielded) = 3
    /\ responses # twin.responses

\* reading a decimal numeral
DigitValue(c) == CHOOSE d \in 0..9 : Digit(d) = c

RECURSIVE TextToNat(_)
TextToNat(t) ==
    IF Len(t) = 0 THEN 0
    ELSE 10 * TextToNat(SubSeq(t, 1, Len(t) - 1)) + DigitValue(t[Len(t)])

TextToInt(t) == IF StartsWith(t, "-") THEN 0 - TextToNat(Tail(t)) ELSE TextToNat(t)

\* C14: a facets call raises exactly when one of its fields is not in
\* FACETABLE_FIELDS, the error naming that field; a call whose fields are all
\* in the list returns and appends them; the builder never holds a field that
\* is not in the list, keeps what it holds, and the request search_raw sends
\* for it carries the fields it holds, comma-joined, as the facet parameter.
C14_FacetValidation ==
    /\ [](last_call.op = "facets" =>
            LET field_names == last_call.args
                rejected == {k \in 1..Len(field_names) :
                                ~InList(field_names[k], FACETABLE_FIELDS)}
            IN /\ IsNone(last_call.raised) <=> rejected = {}
               /\ ~IsNone(last_call.raised) =>
                      \E k \in rejected : Val(last_call.raised).field = field_names[k]
               /\ IsNone(last_call.raised) =>
                      query._facets = last_call.before._facets \o field_names)
    /\ [](\A k \in 1..Len(query._facets) : InList(query._facets[k], FACETABLE_FIELDS))
    /\ [](last_call.op = "search_raw" /\ Len(query._facets) > 0 =>
            last_call.result.params.facet = Join(<<",">>, query._facets))
    /\ [][IsPrefix(query._facets, query'._facets)]_<<vars, aux>>

\* TYPE and COUNTRY were registered and the request carries facet=TYPE,COUNTRY
C14_Witness ==
    /\ last_call.op = "search_raw"
    /\ query._facets = <<TYPE, COUNTRY>>
    /\ last_call.result.params.facet = TYPE \o <<",">> \o COUNTRY

\* C15: rows(n) returns without raising and leaves the builder's row count at
\* the smaller of n and MAX_ROWS: 100 after rows(150), 10 after rows(10).
C15_RowsClamp ==
    last_call.op = "rows" =>
        LET n == last_call.args[1]
        IN /\ IsNone(last_call.raised)
           /\ query._rows = (IF n <= MAX_ROWS THEN n ELSE MAX_ROWS)
           /\ n = 150 => query._rows = 100
           /\ n = 10 => query._rows = 10

\* rows(150) has left the row count at 100
C15_Witness ==
    last_call.op = "rows" /\ last_call.args = <<150>> /\ query._rows = 100

\* C16 as stated: the rows parameter of every request search_raw sends is at
\* most MAX_ROWS, whatever the builder's row count and the keyword arguments.
C16_RowsParameterBound ==
    last_call.op = "search_raw" =>
        TextToInt(last_call.result.params.rows) <= MAX_ROWS

\* C16: the rows parameter is a "rows" keyword argument when one is passed, as
\* it is, and otherwise the builder's row count clamped to MAX_ROWS.
C16_RowsBoundUnlessOverridden ==
    last_call.op = "search_raw" =>
        LET kwargs == last_call.args
            sent == last_call.result.params.rows
        IN IF "rows" \in DOMAIN kwargs
           THEN sent = kwargs.rows
           ELSE /\ TextToInt(sent) <= MAX_ROWS
                /\ sent = IntToText(IF query._rows <= MAX_ROWS THEN query._rows
                                    ELSE MAX_ROWS)

\* a request went out with rows=500, taken from the keyword arguments, for a
\* builder whose row count is 10
C16_Witness ==
    /\ last_call.op = "search_raw"
    /\ "rows" \in DOMAIN last_call.args
    /\ TextToInt(last_call.result.params.rows) = 500
    /\ query._rows = 10

\* the separator between terms, and the double quote
SEP == <<" ", "A", "N", "D", " ">>
DQ == "\""

\* the terms a call is to emit: the free text when it is present and not
\* empty, then one term per filter entry in the map's order
TermsOf(text, filters) ==
    (IF ~IsNone(text) /\ Val(text) # <<>> THEN <<Val(text)>> ELSE <<>>)
        \o [k \in 1..Len(filters) |-> FilterTerm(filters[k])]

\* where the k-th term starts in the compiled string (characters before it)
RECURSIVE TermOffset(_, _)
TermOffset(terms, k) ==
    IF k = 1 THEN 0
    ELSE TermOffset(terms, k - 1) + Len(terms[k - 1]) + Len(SEP)

\* C17: build_query_string returns without raising; its result is the empty
\* string when there is no term and otherwise the terms in order (the free text
\* first, as given, then the filters in insertion order), each two neighbours
\* separated by " AND " and nothing else around them.
C17_JoinedTerms ==
    last_call.op = "build_query_string" =>
        LET terms == TermsOf(last_call.args.text, last_call.args.filters)
            n == Len(terms)
            compiled == last_call.result
        IN /\ IsNone(last_call.raised)
           /\ n = 0 => compiled = <<>>
           /\ n > 0 => Len(compiled) = TermOffset(terms, n) + Len(terms[n])
           /\ \A k \in 1..n :
                  SubSeq(compiled, TermOffset(terms, k) + 1,
                         TermOffset(terms, k) + Len(terms[k])) = terms[k]
           /\ \A k \in 2..n :
                  SubSeq(compiled, TermOffset(terms, k) - Len(SEP) + 1,
                         TermOffset(terms, k)) = SEP

\* x y AND TYPE:IMAGE AND who:"a b" was compiled from the text "x y" and the
\* map {TYPE: IMAGE (an enum member), who: "a b"}
C17_Witness ==
    /\ last_call.op = "build_query_string"
    /\ last_call.args.text = Some(<<"x", " ", "y">>)
    /\ last_call.args.filters =
           <<[k |-> TYPE, v |-> PyEnum(<<"I", "M", "A", "G", "E">>)],
             [k |-> WHO, v |-> PyStr(<<"a", " ", "b">>)]>>
    /\ last_call.result =
           <<"x", " ", "y">> \o SEP \o TYPE \o <<":", "I", "M", "A", "G", "E">>
               \o SEP \o WHO \o <<":", DQ, "a", " ", "b", DQ>>

\* C18: with a non-empty text and no filter the result is the text; with no
\* text and one filter whose value has no space it is field:value.
C18_SingleTerm ==
    last_call.op = "build_query_string" =>
        LET text == last_call.args.text
            filters == last_call.args.filters
            compiled == last_call.result
        IN /\ (~IsNone(text) /\ Val(text) # <<>> /\ Len(filters) = 0) =>
                  compiled = Val(text)
           /\ ((IsNone(text) \/ Val(text) = <<>>) /\ Len(filters) = 1
                  /\ ~Contains(str(filters[1].v), " ")) =>
                  compiled = filters[1].k \o <<":">> \o str(filters[1].v)

\* who:a was compiled from the map {who: a} alone
C18_Witness ==
    /\ last_call.op = "build_query_string"
    /\ IsNone(last_call.args.text)
    /\ last_call.args.filters = <<[k |-> WHO, v |-> PyStr(<<"a">>)]>>
    /\ last_call.result = WHO \o <<":", "a">>

\* C19: the value emitted for v is v in double quotes when v has a space and
\* does not both start and end with a double quote, and v itself when it does
\* or when it has no space; compiling the emitted value again emits it
\* unchanged; {f: "a b"} compiles to f:"a b".
C19_QuotedOnce ==
    /\ last_call.op = "recompile" =>
           LET v == last_call.args[1]
               once == last_call.result.once
               wrapped == Len(v) > 0 /\ v[1] = DQ /\ v[Len(v)] = DQ
           IN /\ (Contains(v, " ") /\ ~wrapped) => once = <<DQ>> \o v \o <<DQ>>
              /\ wrapped => once = v
              /\ ~Contains(v, " ") => once = v
              /\ last_call.result.twice = once
    /\ (/\ last_call.op = "build_query_string"
        /\ IsNone(last_call.args.text)
        /\ Len(last_call.args.filters) = 1
        /\ last_call.args.filters[1].v = PyStr(<<"a", " ", "b">>)) =>
           last_call.result =
               last_call.args.filters[1].k \o <<":", DQ, "a", " ", "b", DQ>>

\* a a was emitted as "a a", and "a a" compiled again stayed "a a"
C19_Witness ==
    /\ last_call.op = "recompile"
    /\ last_call.args[1] = <<"a", " ", "a">>
    /\ last_call.result.once = <<DQ, "a", " ", "a", DQ>>
    /\ last_call.result.twice = last_call.result.once

\* the field a filter setter call is for
TargetField(call) ==
    CASE call.op = "who" -> WHO
      [] call.op \in {"media_type", "type_filter"} -> TYPE
      [] call.op \in {"year_filter", "time_period"} -> YEAR
      [] call.op = "field" -> call.args[1]

\* whether the call gives a value (time_period with neither bound gives none)
GivesValue(call) ==
    /\ call.op \in {"who", "media_type", "type_filter", "year_filter", "time_period",
                    "field"}
    /\ call.op = "time_period" => ~(IsNone(call.args[1]) /\ IsNone(call.args[2]))

\* the value the call gives: its value argument, a MediaType member's value,
\* or the year range of the bounds passed
GivenValue(call) ==
    CASE call.op = "field" -> call.args[2]
      [] call.op = "media_type" -> PyStr(call.args[1].s)
      [] call.op = "time_period" -> PyStr(YearRange(call.args[1], call.args[2]))
      [] OTHER -> call.args[1]

\* the entries of a filter map for the field names other than f
OtherEntries(d, f) == {d[k] : k \in {j \in 1..Len(d) : d[j].k # f}}

\* C20: the filter map has one entry per field name at most; after a setter
\* call that gives a value for a field, the field's entry holds that value and
\* the entries of the other fields are as before; after geographic() the
\* geographic constraint is the triple passed.
C20_LastWriteWins ==
    /\ \A j, k \in 1..Len(query._filters) :
           query._filters[j].k = query._filters[k].k => j = k
    /\ GivesValue(last_call) =>
           /\ HasKey(query._filters, TargetField(last_call))
           /\ DictGet(query._filters, TargetField(last_call), None) = GivenValue(last_call)
           /\ OtherEntries(query._filters, TargetField(last_call))
                  = OtherEntries(last_call.before._filters, TargetField(last_call))
    /\ last_call.op = "geographic" => query._geographic = Some(last_call.args)

\* the filter-setting calls
IsFilterSetter(call) ==
    call.op \in {"who", "media_type", "type_filter", "year_filter", "time_period",
                 "field"}

GivenBound(b) == ~IsNone(b) /\ Val(b) # 0

C24_YearRange ==
    (last_call.op = "time_period"
        /\ ~(IsNone(last_call.args[1]) /\ IsNone(last_call.args[2]))) =>
        /\ HasKey(query._filters, YEAR)
        /\ DictGet(query._filters, YEAR, None)
               = PyStr(YearRange(last_call.args[1], last_call.args[2]))


\* the calls that send a request, and the slots of the builder that are no filter
SendsRequest(call) == call.op \in {"search_raw", "search"}

NonFilterSlots ==
    {"_text_query", "_geographic", "_facets", "_profile", "_rows",
     "_reusability", "_media_flag", "_thumbnail_flag"}

SlotsKept(call, slots) == \A slot \in slots : query[slot] = call.before[slot]

\* C22: the query parameter of a request sent by search_raw (and so by search)
\* is the compiled query string when that is non-empty and "*:*" when it is
\* empty, so it is never empty; get_query_string returns the compiled string
\* itself, the empty string when the builder has no text and no filter.
C22_WildcardAtTransport ==
    /\ SendsRequest(last_call) =>
         LET compiled == build_query_string(last_call.before._text_query,
                                            last_call.before._filters)
         IN /\ last_call.result.params.query =
                 (IF compiled # <<>> THEN compiled ELSE <<"*", ":", "*">>)
            /\ last_call.result.params.query # <<>>
    /\ last_call.op = "get_query_string" =>
         /\ last_call.result = build_query_string(last_call.before._text_query,
                                                  last_call.before._filters)
         /\ (~TruthyText(last_call.before._text_query)
               /\ Len(last_call.before._filters) = 0) => last_call.result = <<>>

\* a request for a builder that compiles to the empty string was sent with "*:*"
C22_Witness ==
    /\ last_call.op = "search_raw"
    /\ last_call.before._text_query = Some(<<>>)
    /\ get_query_string(last_call.before) = <<>>
    /\ last_call.result.params.query = <<"*", ":", "*">>

FilterSetterNames == {"who", "public_domain", "creative_commons"}

\* the reusability a request for builder q carries: absent, or the value
SentReusability(q) ==
    IF ~IsNone(q._reusability) /\ Val(q._reusability).v # ""
    THEN Some(Val(q._reusability).v) ELSE None

RequestReusability(params) ==
    IF "reusability" \in DOMAIN params THEN Some(params.reusability) ELSE None

\* C30 as stated: no filter setter modifies a slot other than the filter map,
\* so only reusability() changes the reusability a request carries.
C30_FiltersOnly ==
    /\ last_call.op \in FilterSetterNames => SlotsKept(last_call, NonFilterSlots)
    /\ (last_call.op \notin {"none", "reusability"}) =>
         query._reusability = last_call.before._reusability
    /\ SendsRequest(last_call) =>
         RequestReusability(last_call.result.params) = SentReusability(last_call.before)

\* C30: every filter setter other than public_domain changes only the filter
\* map; public_domain also sets the reusability to OPEN and changes no other
\* slot; the reusability level is changed by reusability() and public_domain()
\* alone, and a request carries the value of the more recent of the two calls
\* (absent when neither was made or the level is empty).
C30_FiltersAndOpenReusability ==
    /\ last_call.op \in FilterSetterNames \ {"public_domain"} =>
         SlotsKept(last_call, NonFilterSlots)
    /\ last_call.op = "public_domain" =>
         /\ SlotsKept(last_call, NonFilterSlots \ {"_reusability"})
         /\ query._reusability = Some(ReusabilityOPEN)
    /\ last_call.op = "reusability" =>
         query._reusability = Some(last_call.args[1])
    /\ (last_call.op \notin {"none", "reusability", "public_domain"}) =>
         query._reusability = last_call.before._reusability
    /\ SendsRequest(last_call) =>
         RequestReusability(last_call.result.params) = SentReusability(last_call.before)

\* public_domain() set the rights filter and the level OPEN, and the request
\* sent afterwards carried "open"
C30_Witness ==
    /\ last_call.op = "search_raw"
    /\ HasKey(last_call.before._filters, RIGHTS)
    /\ DictGet(last_call.before._filters, RIGHTS, None) = PyStr(PublicDomainFilter)
    /\ last_call.before._reusability = Some(ReusabilityOPEN)
    /\ RequestReusability(last_call.result.params) = Some("open")


\* C23: the facet summary of a page returned by search_raw is present exactly
\* when the builder had at least one registered facet field; with none
\* registered it is None whatever the response contains.
C23_FacetsIffRequested ==
    (last_call.op = "search_raw" /\ IsNone(last_call.raised)) =>
        (~IsNone(Val(last_call.result.results).facets)
            <=> Len(last_call.before._facets) > 0)

\* the response carried a facet summary, none was requested, none is returned
C23_Witness ==
    /\ last_call.op = "search_raw"
    /\ IsNone(last_call.raised)
    /\ Len(last_call.before._facets) = 0
    /\ "facets" \in DOMAIN last_call.result.response.data
    /\ IsNone(Val(last_call.result.results).facets)

\* C28: a facets(...) call that raises leaves the facet list of the builder
\* as it was before the call.
C28_FailedFacetsKeepList ==
    (last_call.op = "facets" /\ ~IsNone(last_call.raised)) =>
        query._facets = last_call.before._facets


\* C26: search_raw, search, search_all_raw and search_all never modify the
\* caller's builder: every step that changes a slot of the builder is a field
\* assignment the caller makes itself, at a moment the generator is not
\* running, and after search_raw or search the builder is what it was before.
C26_BuilderUntouched ==
    [][/\ (query' # query) =>
            /\ last_call'.op = "field"
            /\ last_call'.before = query
            /\ query' = field(query, last_call'.args[1], last_call'.args[2])
            /\ UNCHANGED locals
       /\ (last_call' # last_call /\ SendsRequest(last_call')) =>
            /\ last_call'.before = query
            /\ query' = query]_<<vars, aux>>

\* an iteration ended after two fetches whose second page asked for another
\* row count than the builder holds, and a single search followed it
C26_Witness ==
    /\ pc \in {"done", "error"}
    /\ Len(requests) >= 2
    /\ page_query._rows # query._rows
    /\ SendsRequest(last_call)
    /\ query = last_call.before


\* the number of records of the pages answered before request k
RECURSIVE RecordsBefore(_)
RecordsBefore(k) ==
    IF k <= 1 THEN 0 ELSE RecordsBefore(k - 1) + Len(ItemsOf(responses[k - 1]))

\* C27: the row count set with rows(n) has no effect on search_all /
\* search_all_raw: the row count of every page fetch is DEFAULT_ROWS, or the
\* remaining budget when that is smaller, and two iterations over builders that
\* differ in their rows setting only send the same requests and yield the same
\* records.
C27_RowsSettingIgnored ==
    /\ twin.requests = requests
    /\ twin.yielded = yielded
    /\ \A k \in 1..Len(requests) :
          requests[k].rows =
             IntToText(IF TruthyInt(max_records)
                       THEN Min(DEFAULT_ROWS, Val(max_records) - RecordsBefore(k))
                       ELSE DEFAULT_ROWS)

\* the caller's builder holds rows = 0, the other one rows = 10, and both
\* iterations sent a second request
C27_Witness ==
    /\ query._rows = 0
    /\ OtherRows(query)._rows = 10
    /\ Len(requests) = 2
    /\ Len(twin.requests) = 2
    /\ requests[1].rows = IntToText(DEFAULT_ROWS)


\* C29: with a budget max_records >= 1 and a caller that keeps pulling, the
\* iteration ends whatever the fetcher answers: every fetch but the last was
\* followed by at least one yielded record, so at most max_records fetches are
\* issued, and a generator that was created reaches its end or its error.
C29_Terminates ==
    /\ []((~IsNone(max_records) /\ Val(max_records) >= 1) =>
             /\ Len(requests) <= Len(yielded) + 1
             /\ Len(requests) <= Val(max_records)
             /\ Len(yielded) <= Val(max_records))
    /\ (pc = "created") ~> (pc \in {"done", "error"})

\* a budget of 3 was used up by three fetches of pages that each carried one
\* record and a cursor
C29_Witness ==
    /\ pc = "done"
    /\ max_records = Some(3)
    /\ Len(requests) = 3
    /\ Len(yielded) = 3
    /\ \A k \in 1..3 : HasCursor(responses[k]) /\ Len(ItemsOf(responses[k])) = 1


\* a full entity URI with a non-empty path
IsEntityUri(uri) == startswith(uri, DATA_URI) /\ Len(uri) > Len(DATA_URI)

\* C25: get_place_entity raises a ValueError, and sends no request, for an
\* identifier that is neither a "http://data.europeana.eu/" URI with a
\* non-empty path nor a string containing "/"; no ValueError is ever raised
\* after a request was sent; and every identifier is_place_entity_uri accepts
\* is accepted by _extract_entity_path.
C25_MalformedIdentifier ==
    /\ last_call.op = "get_place_entity" =>
         /\ (~IsEntityUri(last_call.args[1]) /\ ~Contains(last_call.args[1], "/")) =>
               last_call.raised = Some(ValueError)
         /\ last_call.raised = Some(ValueError) => IsNone(last_call.result.sent)
    /\ (last_call.op = "is_place_entity_uri" /\ last_call.result) =>
         IsNone(_extract_entity_path(last_call.args[1]).raised)

\* get_place_entity("99") raised ValueError without a request
C25_Witness ==
    /\ last_call.op = "get_place_entity"
    /\ last_call.args[1] = <<"9", "9">>
    /\ last_call.raised = Some(ValueError)
    /\ IsNone(last_call.result.sent)

=============================================================================
